---------------------------- MODULE Spec2Model ----------------------------
(***************************************************************************)
(* Standalone transaction validation of TurtleDexCore (package types,      *)
(* validtransaction.go).  A transaction and a height are the inputs; the   *)
(* rule functions are operators computed the way the Go code computes      *)
(* them, and StandaloneValid is a call frame that runs one rule per step.  *)
(* Where two invocations run together, noRepeats runs one statement per    *)
(* step on maps allocated from a heap the invocations share.               *)
(***************************************************************************)
EXTENDS Integers, Sequences, FiniteSets, TLC

VARIABLES
    tx,             \* the transaction under validation (an immutable value)
    currentHeight,  \* the height handed to the validator
    calls,          \* call frames of StandaloneValid: [pc, err, invoked]
    direct,         \* the one rule function called on its own, and its result
    last,           \* verdict of the previous completed validation of tx
    heap,           \* the maps that exist: address -> set of parent IDs
    scans           \* the locals of each frame's running noRepeats call

vars == <<tx, currentHeight, calls, direct, last, heap, scans>>

\* ------------------------------------------------------------------------
\* Error kinds (validtransaction.go, var block).  Nil is Go's nil error.
\* ------------------------------------------------------------------------
Nil == "nil"
ErrDoubleSpend == "ErrDoubleSpend"
ErrFileContractOutputSumViolation == "ErrFileContractOutputSumViolation"
ErrFileContractWindowEndViolation == "ErrFileContractWindowEndViolation"
ErrFileContractWindowStartViolation == "ErrFileContractWindowStartViolation"
ErrNonZeroClaimStart == "ErrNonZeroClaimStart"
ErrStorageProofWithOutputs == "ErrStorageProofWithOutputs"
ErrTimelockNotSatisfied == "ErrTimelockNotSatisfied"
ErrTransactionTooLarge == "ErrTransactionTooLarge"
ErrZeroMinerFee == "ErrZeroMinerFee"
ErrZeroOutput == "ErrZeroOutput"
ErrInvalidFoundationUpdateEncoding == "ErrInvalidFoundationUpdateEncoding"
ErrUninitializedFoundationUpdate == "ErrUninitializedFoundationUpdate"
\* The signature collaborator's failure (its kinds are not told apart here).
ErrInvalidSignature == "ErrInvalidSignature"

\* ------------------------------------------------------------------------
\* Network parameters.  They are package-level constants of package types
\* whose defining file is not among the visible sources; the values are the
\* ones the rule functions are written against (the Oak limit is the
\* "64 KiB" of fitsInABlock's comment, and is the stricter of the two caps).
\* ------------------------------------------------------------------------
BlockSizeLimit == 2000000
OakHardforkTxnSizeLimit == 64000
OakHardforkBlock == 135000
FoundationHardforkHeight == 298000
TaxHardforkHeight == 21000
TurtleDexfundCount == 10000
SpecifierLen == 16
HashSize == 32
\* The overhead fitsInABlock leaves free in a block (the literal 5e3).
BlockOverhead == 5000

\* NewSpecifier("foundation"): the ASCII bytes, zero-padded to SpecifierLen.
SpecifierFoundation ==
    <<102, 111, 117, 110, 100, 97, 116, 105, 111, 110, 0, 0, 0, 0, 0, 0>>

\* The zero value UnlockHash{}: the "void" address.
VoidUnlockHash == [i \in 1..HashSize |-> 0]

\* ------------------------------------------------------------------------
\* Currency: arbitrary-precision non-negative integers; Add is exact.
\* ------------------------------------------------------------------------
RECURSIVE SumValues(_)
SumValues(outputs) ==
    IF outputs = <<>> THEN 0
    ELSE Head(outputs).Value + SumValues(Tail(outputs))

\* Tax(height, payout): 3.9% of the payout, rounded down to a multiple of
\* the fund count from the tax hardfork on.
Tax(height, payout) ==
    LET raw == (payout * 39) \div 1000
    IN  IF height < TaxHardforkHeight THEN raw
        ELSE raw - (raw % TurtleDexfundCount)

PostTax(height, payout) == payout - Tax(height, payout)

\* MarshalTurtleDexSize: the byte length of the canonical encoding.  The
\* encoder is not among the visible sources; a transaction carries the
\* length its encoding has.
MarshalTurtleDexSize(t) == t.encodedSize

\* bytes.HasPrefix
HasPrefix(b, prefix) ==
    /\ Len(b) >= Len(prefix)
    /\ SubSeq(b, 1, Len(prefix)) = prefix

\* encoding.Unmarshal into a FoundationUnlockHashUpdate: two UnlockHashes
\* read one after the other; it fails when the bytes run out.
Unmarshal(b) ==
    IF Len(b) < 2 * HashSize
    THEN [ok |-> FALSE, NewPrimary |-> VoidUnlockHash, NewFailsafe |-> VoidUnlockHash]
    ELSE [ok |-> TRUE,
          NewPrimary |-> SubSeq(b, 1, HashSize),
          NewFailsafe |-> SubSeq(b, HashSize + 1, 2 * HashSize)]

\* validSignatures (signatures.go, the signature collaborator): the
\* transaction carries the verdict its signatures earn.
validSignatures(t, height) == t.signatureErr


\* ------------------------------------------------------------------------
\* The rule functions.
\* ------------------------------------------------------------------------

\* The loop body with the commented-out zero check of the proof outputs
\* switched on.
FileContractErrZeroCheck(fc, height) ==
    IF fc.WindowStart <= height THEN ErrFileContractWindowStartViolation
    ELSE IF fc.WindowEnd <= fc.WindowStart THEN ErrFileContractWindowEndViolation
    ELSE IF \/ \E i \in 1..Len(fc.ValidProofOutputs) : fc.ValidProofOutputs[i].Value = 0
            \/ \E i \in 1..Len(fc.MissedProofOutputs) : fc.MissedProofOutputs[i].Value = 0
    THEN ErrZeroOutput
    ELSE IF SumValues(fc.ValidProofOutputs) # PostTax(height, fc.Payout)
    THEN ErrFileContractOutputSumViolation
    ELSE IF SumValues(fc.MissedProofOutputs) # PostTax(height, fc.Payout)
    THEN ErrFileContractOutputSumViolation
    ELSE Nil

\* One file contract of correctFileContracts' loop body: Nil lets the loop
\* go on to the next contract.  Zero-valued proof outputs are summed like
\* any other (the zero check is commented out in the source).
FileContractErr(fc, height) ==
    IF fc.WindowStart <= height THEN ErrFileContractWindowStartViolation
    ELSE IF fc.WindowEnd <= fc.WindowStart THEN ErrFileContractWindowEndViolation
    ELSE LET validProofOutputSum == SumValues(fc.ValidProofOutputs)
             missedProofOutputSum == SumValues(fc.MissedProofOutputs)
             outputPortion == PostTax(height, fc.Payout)
         IN  IF validProofOutputSum # outputPortion
             THEN ErrFileContractOutputSumViolation
             ELSE IF missedProofOutputSum # outputPortion
             THEN ErrFileContractOutputSumViolation
             ELSE Nil

RECURSIVE FileContractsFrom(_, _, _)
FileContractsFrom(fcs, i, height) ==
    IF i > Len(fcs) THEN Nil
    ELSE LET e == FileContractErr(fcs[i], height)
         IN  IF e # Nil THEN e ELSE FileContractsFrom(fcs, i + 1, height)

correctFileContracts(t, height) == FileContractsFrom(t.FileContracts, 1, height)

\* The loop body taking the tax off the missed total, as the contract rule
\* takes it off the payout.
RevisionErrTaxed(fcr, height) ==
    IF fcr.NewWindowStart <= height THEN ErrFileContractWindowStartViolation
    ELSE IF fcr.NewWindowEnd <= fcr.NewWindowStart
    THEN ErrFileContractWindowEndViolation
    ELSE IF SumValues(fcr.NewValidProofOutputs)
            # PostTax(height, SumValues(fcr.NewMissedProofOutputs))
    THEN ErrFileContractOutputSumViolation
    ELSE Nil

\* The loop body letting a window start at the current height.
RevisionErrStartAtHeight(fcr, height) ==
    IF fcr.NewWindowStart < height THEN ErrFileContractWindowStartViolation
    ELSE IF fcr.NewWindowEnd <= fcr.NewWindowStart
    THEN ErrFileContractWindowEndViolation
    ELSE IF SumValues(fcr.NewValidProofOutputs) # SumValues(fcr.NewMissedProofOutputs)
    THEN ErrFileContractOutputSumViolation
    ELSE Nil

\* One revision of correctFileContractRevisions' loop body.
RevisionErr(fcr, height) ==
    IF fcr.NewWindowStart <= height THEN ErrFileContractWindowStartViolation
    ELSE IF fcr.NewWindowEnd <= fcr.NewWindowStart
    THEN ErrFileContractWindowEndViolation
    ELSE LET validProofOutputSum == SumValues(fcr.NewValidProofOutputs)
             missedProofOutputSum == SumValues(fcr.NewMissedProofOutputs)
         IN  IF validProofOutputSum # missedProofOutputSum
             THEN ErrFileContractOutputSumViolation
             ELSE Nil

RECURSIVE RevisionsFrom(_, _, _)
RevisionsFrom(fcrs, i, height) ==
    IF i > Len(fcrs) THEN Nil
    ELSE LET e == RevisionErr(fcrs[i], height)
         IN  IF e # Nil THEN e ELSE RevisionsFrom(fcrs, i + 1, height)

correctFileContractRevisions(t, height) ==
    RevisionsFrom(t.FileContractRevisions, 1, height)

\* The loop body looking for the void address in NewPrimary only.
ArbitraryDataErrPrimaryOnly(arb) ==
    IF HasPrefix(arb, SpecifierFoundation)
    THEN LET update == Unmarshal(SubSeq(arb, SpecifierLen + 1, Len(arb)))
         IN  IF ~update.ok THEN ErrInvalidFoundationUpdateEncoding
             ELSE IF update.NewPrimary = VoidUnlockHash
             THEN ErrUninitializedFoundationUpdate
             ELSE Nil
    ELSE Nil

\* One arbitrary-data entry of correctArbitraryData's loop body.
ArbitraryDataErr(arb) ==
    IF HasPrefix(arb, SpecifierFoundation)
    THEN LET update == Unmarshal(SubSeq(arb, SpecifierLen + 1, Len(arb)))
         IN  IF ~update.ok THEN ErrInvalidFoundationUpdateEncoding
             ELSE IF \/ update.NewPrimary = VoidUnlockHash
                     \/ update.NewFailsafe = VoidUnlockHash
             THEN ErrUninitializedFoundationUpdate
             ELSE Nil
    ELSE Nil

RECURSIVE ArbitraryDataFrom(_, _)
ArbitraryDataFrom(arbs, i) ==
    IF i > Len(arbs) THEN Nil
    ELSE LET e == ArbitraryDataErr(arbs[i])
         IN  IF e # Nil THEN e ELSE ArbitraryDataFrom(arbs, i + 1)

\* correctArbitraryData without its height gate.
correctArbitraryDataUngated(t, height) == ArbitraryDataFrom(t.ArbitraryData, 1)

correctArbitraryData(t, height) ==
    IF height < FoundationHardforkHeight THEN Nil
    ELSE ArbitraryDataFrom(t.ArbitraryData, 1)

\* fitsInABlock rejecting a transaction that is exactly at the legacy limit.
fitsInABlockOffByOne(t, height) ==
    LET size == MarshalTurtleDexSize(t)
    IN  IF size >= BlockSizeLimit - BlockOverhead THEN ErrTransactionTooLarge
        ELSE IF height >= OakHardforkBlock /\ size > OakHardforkTxnSizeLimit
        THEN ErrTransactionTooLarge
        ELSE Nil

\* fitsInABlock applying the Oak cap at every height.
fitsInABlockUngated(t, height) ==
    LET size == MarshalTurtleDexSize(t)
    IN  IF size > BlockSizeLimit - BlockOverhead THEN ErrTransactionTooLarge
        ELSE IF size > OakHardforkTxnSizeLimit THEN ErrTransactionTooLarge
        ELSE Nil

fitsInABlock(t, height) ==
    LET size == MarshalTurtleDexSize(t)
    IN  IF size > BlockSizeLimit - BlockOverhead THEN ErrTransactionTooLarge
        ELSE IF height >= OakHardforkBlock /\ size > OakHardforkTxnSizeLimit
        THEN ErrTransactionTooLarge
        ELSE Nil

\* followsMinimumValues: four loops, each returning at its first offender.
RECURSIVE ZeroValueFrom(_, _)
ZeroValueFrom(values, i) ==
    IF i > Len(values) THEN FALSE
    ELSE IF values[i] = 0 THEN TRUE
    ELSE ZeroValueFrom(values, i + 1)

\* The fund output loop without the check of the reserved ClaimStart.
RECURSIVE FundOutputsFromNoClaimStart(_, _)
FundOutputsFromNoClaimStart(sfos, i) ==
    IF i > Len(sfos) THEN Nil
    ELSE IF sfos[i].Value = 0 THEN ErrZeroOutput
    ELSE FundOutputsFromNoClaimStart(sfos, i + 1)

RECURSIVE FundOutputsFrom(_, _)
FundOutputsFrom(sfos, i) ==
    IF i > Len(sfos) THEN Nil
    ELSE IF sfos[i].ClaimStart # 0 THEN ErrNonZeroClaimStart
    ELSE IF sfos[i].Value = 0 THEN ErrZeroOutput
    ELSE FundOutputsFrom(sfos, i + 1)

followsMinimumValues(t) ==
    IF ZeroValueFrom([i \in 1..Len(t.TurtleDexcoinOutputs) |-> t.TurtleDexcoinOutputs[i].Value], 1)
    THEN ErrZeroOutput
    ELSE IF ZeroValueFrom([i \in 1..Len(t.FileContracts) |-> t.FileContracts[i].Payout], 1)
    THEN ErrZeroOutput
    ELSE LET e == FundOutputsFrom(t.TurtleDexfundOutputs, 1)
         IN  IF e # Nil THEN e
             ELSE IF ZeroValueFrom(t.MinerFees, 1) THEN ErrZeroMinerFee
             ELSE Nil

\* followsStorageProofRules forgetting the fund outputs.
followsStorageProofRulesNoFunds(t) ==
    IF Len(t.StorageProofs) = 0 THEN Nil
    ELSE IF Len(t.TurtleDexcoinOutputs) # 0 THEN ErrStorageProofWithOutputs
    ELSE IF Len(t.FileContracts) # 0 THEN ErrStorageProofWithOutputs
    ELSE IF Len(t.FileContractRevisions) # 0 THEN ErrStorageProofWithOutputs
    ELSE Nil

followsStorageProofRules(t) ==
    IF Len(t.StorageProofs) = 0 THEN Nil
    ELSE IF Len(t.TurtleDexcoinOutputs) # 0 THEN ErrStorageProofWithOutputs
    ELSE IF Len(t.FileContracts) # 0 THEN ErrStorageProofWithOutputs
    ELSE IF Len(t.FileContractRevisions) # 0 THEN ErrStorageProofWithOutputs
    ELSE IF Len(t.TurtleDexfundOutputs) # 0 THEN ErrStorageProofWithOutputs
    ELSE Nil

\* The parent IDs of a list of inputs, storage proofs or revisions.
ParentIDs(items) == [i \in 1..Len(items) |-> items[i].ParentID]

\* One duplicate-detection loop of noRepeats over the parent IDs of `items`,
\* starting from the map `seen`: whether a repeat was met, and the map.
RECURSIVE ScanParentIDs(_, _, _)
ScanParentIDs(items, i, seen) ==
    IF i > Len(items) THEN [exists |-> FALSE, seen |-> seen]
    ELSE IF items[i].ParentID \in seen THEN [exists |-> TRUE, seen |-> seen]
    ELSE ScanParentIDs(items, i + 1, seen \cup {items[i].ParentID})

\* noRepeats with one map for every kind of parent ID.
noRepeatsOneMap(t) ==
    LET ttdcInputs == ScanParentIDs(t.TurtleDexcoinInputs, 1, {})
        proofs == ScanParentIDs(t.StorageProofs, 1, ttdcInputs.seen)
        doneFileContracts == ScanParentIDs(t.FileContractRevisions, 1, proofs.seen)
        siafundInputs == ScanParentIDs(t.TurtleDexfundInputs, 1, doneFileContracts.seen)
    IN  IF ttdcInputs.exists THEN ErrDoubleSpend
        ELSE IF proofs.exists THEN ErrDoubleSpend
        ELSE IF doneFileContracts.exists THEN ErrDoubleSpend
        ELSE IF siafundInputs.exists THEN ErrDoubleSpend
        ELSE Nil

\* noRepeats: the maps are made afresh by every call; storage proofs and
\* revisions share doneFileContracts.
noRepeats(t) ==
    LET ttdcInputs == ScanParentIDs(t.TurtleDexcoinInputs, 1, {})
        proofs == ScanParentIDs(t.StorageProofs, 1, {})
        doneFileContracts == ScanParentIDs(t.FileContractRevisions, 1, proofs.seen)
        siafundInputs == ScanParentIDs(t.TurtleDexfundInputs, 1, {})
    IN  IF ttdcInputs.exists THEN ErrDoubleSpend
        ELSE IF proofs.exists THEN ErrDoubleSpend
        ELSE IF doneFileContracts.exists THEN ErrDoubleSpend
        ELSE IF siafundInputs.exists THEN ErrDoubleSpend
        ELSE Nil

\* The timelock comparison turned around.
UnlockConditionsErrReversed(uc, height) ==
    IF uc.Timelock < height THEN ErrTimelockNotSatisfied ELSE Nil

\* validUnlockConditions(uc, currentHeight), the package-level function.
UnlockConditionsErr(uc, height) ==
    IF uc.Timelock > height THEN ErrTimelockNotSatisfied ELSE Nil

RECURSIVE UnlockConditionsFrom(_, _, _)
UnlockConditionsFrom(items, i, height) ==
    IF i > Len(items) THEN Nil
    ELSE LET e == UnlockConditionsErr(items[i].UnlockConditions, height)
         IN  IF e # Nil THEN e ELSE UnlockConditionsFrom(items, i + 1, height)

\* Transaction.validUnlockConditions without its loop over the fund inputs.
validUnlockConditionsNoFundInputs(t, height) ==
    LET sci == UnlockConditionsFrom(t.TurtleDexcoinInputs, 1, height)
        fcr == UnlockConditionsFrom(t.FileContractRevisions, 1, height)
    IN  IF sci # Nil THEN sci ELSE fcr

\* Transaction.validUnlockConditions: coin inputs, then revisions, then fund
\* inputs.
validUnlockConditions(t, height) ==
    LET sci == UnlockConditionsFrom(t.TurtleDexcoinInputs, 1, height)
        fcr == UnlockConditionsFrom(t.FileContractRevisions, 1, height)
        sfi == UnlockConditionsFrom(t.TurtleDexfundInputs, 1, height)
    IN  IF sci # Nil THEN sci
        ELSE IF fcr # Nil THEN fcr
        ELSE sfi

\* ------------------------------------------------------------------------
\* StandaloneValid: the order in which it calls the rules.
\* ------------------------------------------------------------------------
Rules ==
    {"fitsInABlock", "followsStorageProofRules", "noRepeats",
     "followsMinimumValues", "correctFileContracts",
     "correctFileContractRevisions", "correctArbitraryData",
     "validUnlockConditions", "validSignatures"}

\* The order of the specification's sections 4.1 to 4.9.
SectionOrder ==
    <<"fitsInABlock", "correctFileContracts", "correctFileContractRevisions",
      "correctArbitraryData", "followsMinimumValues",
      "followsStorageProofRules", "noRepeats", "validUnlockConditions",
      "validSignatures">>

\* StandaloneValid calling noRepeats ahead of followsStorageProofRules.
ChainOrderRepeatsFirst ==
    <<"fitsInABlock", "noRepeats", "followsStorageProofRules",
      "followsMinimumValues", "correctFileContracts",
      "correctFileContractRevisions", "correctArbitraryData",
      "validUnlockConditions", "validSignatures">>

ChainOrder ==
    <<"fitsInABlock", "followsStorageProofRules", "noRepeats",
      "followsMinimumValues", "correctFileContracts",
      "correctFileContractRevisions", "correctArbitraryData",
      "validUnlockConditions", "validSignatures">>

\* The call of one rule method on (t, height).
RuleErr(rule, t, height) ==
    CASE rule = "fitsInABlock" -> fitsInABlock(t, height)
      [] rule = "followsStorageProofRules" -> followsStorageProofRules(t)
      [] rule = "noRepeats" -> noRepeats(t)
      [] rule = "followsMinimumValues" -> followsMinimumValues(t)
      [] rule = "correctFileContracts" -> correctFileContracts(t, height)
      [] rule = "correctFileContractRevisions" -> correctFileContractRevisions(t, height)
      [] rule = "correctArbitraryData" -> correctArbitraryData(t, height)
      [] rule = "validUnlockConditions" -> validUnlockConditions(t, height)
      [] rule = "validSignatures" -> validSignatures(t, height)


\* ------------------------------------------------------------------------
\* Inputs: the (transaction, height) pairs the validator is run on.
\* ------------------------------------------------------------------------
MaxItems == 2       \* items in a varied list of a transaction
MaxTotal == 3       \* items over all varied lists of one transaction
MaxID == 2          \* parent IDs are 1..MaxID
MaxOutputs == 2     \* proof outputs on one side of a contract or revision

\* Heights on both sides of every height gate (height 0 also lies before the
\* tax hardfork).
Heights ==
    {0, OakHardforkBlock - 1, OakHardforkBlock,
     FoundationHardforkHeight - 1, FoundationHardforkHeight}

IDs == 1..MaxID

\* All sequences over S of length at most n.
SeqsUpTo(S, n) == UNION {[1..k -> S] : k \in 0..n}

UC(timelock) == [Timelock |-> timelock]
Input(id, timelock) == [ParentID |-> id, UnlockConditions |-> UC(timelock)]
Output(value) == [Value |-> value]
FundOutput(value, claimStart) == [Value |-> value, ClaimStart |-> claimStart]
StorageProof(id) == [ParentID |-> id]
FileContract(payout, ws, we, valid, missed) ==
    [Payout |-> payout, WindowStart |-> ws, WindowEnd |-> we,
     ValidProofOutputs |-> valid, MissedProofOutputs |-> missed]
Revision(id, timelock, ws, we, valid, missed) ==
    [ParentID |-> id, UnlockConditions |-> UC(timelock),
     NewWindowStart |-> ws, NewWindowEnd |-> we,
     NewValidProofOutputs |-> valid, NewMissedProofOutputs |-> missed]

\* A window that lies in the future at every height of Heights.
FarStart == FoundationHardforkHeight + 1
FarEnd == FoundationHardforkHeight + 2

\* A contract and a revision that break no rule at any height of Heights.
GoodContract == FileContract(1, FarStart, FarEnd, <<Output(1)>>, <<Output(1)>>)
GoodRevision(id) == Revision(id, 0, FarStart, FarEnd, <<Output(3)>>, <<Output(3)>>)

\* The transaction with nothing in it.
EmptyTx ==
    [encodedSize |-> 1000,
     TurtleDexcoinInputs |-> <<>>, TurtleDexcoinOutputs |-> <<>>,
     FileContracts |-> <<>>, FileContractRevisions |-> <<>>,
     StorageProofs |-> <<>>,
     TurtleDexfundInputs |-> <<>>, TurtleDexfundOutputs |-> <<>>,
     MinerFees |-> <<>>, ArbitraryData |-> <<>>,
     signatureErr |-> Nil]

SignatureErrs == {Nil, ErrInvalidSignature}

\* Arbitrary-data entries: Foundation updates that decode (with or without a
\* void address), ones cut short, and entries that are something else.
NonVoidHash == [i \in 1..HashSize |-> 1]
ArbEntries ==
    {SpecifierFoundation \o NonVoidHash \o NonVoidHash,
     SpecifierFoundation \o VoidUnlockHash \o NonVoidHash,
     SpecifierFoundation \o NonVoidHash \o VoidUnlockHash,
     SpecifierFoundation \o SubSeq(NonVoidHash \o NonVoidHash, 1, 2 * HashSize - 1),
     SpecifierFoundation,
     SubSeq(SpecifierFoundation, 1, SpecifierLen - 1),
     <<110>> \o Tail(SpecifierFoundation) \o NonVoidHash \o NonVoidHash,
     <<>>}
MalformedUpdate == SpecifierFoundation \o <<1, 2, 3>>

\* Sizes on both sides of the two caps.
SizeFamily ==
    {[EmptyTx EXCEPT !.encodedSize = size, !.signatureErr = sig] :
        size \in {0, 1000,
                  OakHardforkTxnSizeLimit, OakHardforkTxnSizeLimit + 1,
                  BlockSizeLimit - BlockOverhead,
                  BlockSizeLimit - BlockOverhead + 1},
        sig \in SignatureErrs}

\* Transactions that break any combination of the rules at once.
MixedFamily ==
    {[EmptyTx EXCEPT
        !.encodedSize = size, !.StorageProofs = sps,
        !.TurtleDexcoinInputs = scis, !.TurtleDexcoinOutputs = scos,
        !.FileContracts = fcs, !.FileContractRevisions = fcrs,
        !.ArbitraryData = arbs, !.signatureErr = sig] :
        size \in {1000, BlockSizeLimit - BlockOverhead + 1},
        sps \in {<<>>, <<StorageProof(1)>>},
        scis \in {<<>>, <<Input(1, 0)>>, <<Input(1, 0), Input(1, 0)>>,
                  <<Input(1, OakHardforkBlock)>>},
        scos \in {<<>>, <<Output(1)>>, <<Output(0)>>},
        fcs \in {<<>>, <<GoodContract>>,
                 <<FileContract(1, 0, FarEnd, <<Output(1)>>, <<Output(1)>>)>>},
        fcrs \in {<<>>, <<GoodRevision(2)>>, <<GoodRevision(1)>>,
                  <<Revision(2, 0, FarStart, FarEnd, <<Output(3)>>, <<>>)>>},
        arbs \in {<<>>, <<MalformedUpdate>>},
        sig \in SignatureErrs}

\* Parent IDs over the four lists noRepeats scans.
RepeatFamily ==
    UNION {
        {[EmptyTx EXCEPT
            !.TurtleDexcoinInputs = [i \in 1..n[1] |-> Input(a[i], 0)],
            !.StorageProofs = [i \in 1..n[2] |-> StorageProof(b[i])],
            !.FileContractRevisions = [i \in 1..n[3] |-> GoodRevision(c[i])],
            !.TurtleDexfundInputs = [i \in 1..n[4] |-> Input(d[i], 0)]] :
            a \in [1..n[1] -> IDs], b \in [1..n[2] -> IDs],
            c \in [1..n[3] -> IDs], d \in [1..n[4] -> IDs]} :
        n \in {m \in [1..4 -> 0..MaxItems] : m[1] + m[2] + m[3] + m[4] <= MaxTotal}}

\* Currency values whose sums meet or miss a post-tax payout: PostTax of 100
\* is 97 before the tax hardfork and 100 after it.
OutputValues == {0, 3, 97}
Payouts == {0, 3, 97, 100}
OutputLists == SeqsUpTo({Output(v) : v \in OutputValues}, MaxOutputs)

\* One contract with a window in the future and every choice of outputs.
ContractSumFamily ==
    {[EmptyTx EXCEPT !.FileContracts =
        <<FileContract(payout, FarStart, FarEnd, valid, missed)>>] :
        payout \in Payouts, valid \in OutputLists, missed \in OutputLists}

\* Contracts that pass, and contracts failing each check of the loop body.
ContractVariants(height) ==
    {GoodContract,
     FileContract(0, FarStart, FarEnd, <<Output(0)>>, <<>>),
     FileContract(1, height, FarEnd, <<Output(1)>>, <<Output(1)>>),
     FileContract(1, height, height, <<Output(3)>>, <<Output(1)>>),
     FileContract(1, FarStart, FarStart, <<Output(3)>>, <<Output(1)>>),
     FileContract(1, FarStart, FarEnd, <<Output(3)>>, <<Output(1)>>),
     FileContract(1, FarStart, FarEnd, <<Output(1)>>, <<Output(3)>>)}

ContractListFamily(height) ==
    {[EmptyTx EXCEPT !.FileContracts = fcs] :
        fcs \in SeqsUpTo(ContractVariants(height), MaxItems)}

\* Window bounds around the height.
WindowValues(height) == {0, height, height + 1, height + 2, height + 3}

ContractWindowFamily(height) ==
    {[EmptyTx EXCEPT !.FileContracts =
        <<FileContract(1, ws, we, <<Output(1)>>, missed)>>] :
        ws \in WindowValues(height), we \in WindowValues(height),
        missed \in {<<Output(1)>>, <<Output(3)>>}}

RevisionWindowFamily(height) ==
    {[EmptyTx EXCEPT !.FileContractRevisions =
        <<Revision(1, 0, ws, we, <<Output(3)>>, missed)>>] :
        ws \in WindowValues(height), we \in WindowValues(height),
        missed \in {<<Output(3)>>, <<Output(97)>>}}

RevisionVariants(height) ==
    {GoodRevision(1), GoodRevision(2),
     Revision(1, 0, height, FarEnd, <<Output(3)>>, <<Output(3)>>),
     Revision(2, 0, height, height, <<Output(3)>>, <<>>),
     Revision(1, 0, FarStart, FarStart, <<Output(3)>>, <<>>),
     Revision(2, 0, FarStart, FarEnd, <<Output(3)>>, <<>>)}

RevisionListFamily(height) ==
    {[EmptyTx EXCEPT !.FileContractRevisions = fcrs] :
        fcrs \in SeqsUpTo(RevisionVariants(height), MaxItems)}

\* One revision with a window in the future and every choice of outputs.
RevisionSumFamily ==
    {[EmptyTx EXCEPT !.FileContractRevisions =
        <<Revision(1, 0, FarStart, FarEnd, valid, missed)>>] :
        valid \in OutputLists, missed \in OutputLists}

\* With and without a storage proof, every choice of which other lists are
\* non-empty.
ProofFamily ==
    {[EmptyTx EXCEPT
        !.StorageProofs = sps,
        !.TurtleDexcoinInputs = IF p[1] THEN <<Input(1, 0)>> ELSE <<>>,
        !.TurtleDexcoinOutputs = IF p[2] THEN <<Output(1)>> ELSE <<>>,
        !.FileContracts = IF p[3] THEN <<GoodContract>> ELSE <<>>,
        !.FileContractRevisions = IF p[4] THEN <<GoodRevision(2)>> ELSE <<>>,
        !.TurtleDexfundInputs = IF p[5] THEN <<Input(1, 0)>> ELSE <<>>,
        !.TurtleDexfundOutputs = IF p[6] THEN <<FundOutput(1, 0)>> ELSE <<>>,
        !.MinerFees = IF p[7] THEN <<1>> ELSE <<>>,
        !.ArbitraryData = IF p[8] THEN <<MalformedUpdate>> ELSE <<>>] :
        sps \in {<<>>, <<StorageProof(1)>>, <<StorageProof(1), StorageProof(2)>>},
        p \in [1..8 -> BOOLEAN]}

ArbitraryDataFamily ==
    {[EmptyTx EXCEPT !.ArbitraryData = arbs] :
        arbs \in SeqsUpTo(ArbEntries \cup {MalformedUpdate}, MaxItems)}

\* Values on both sides of zero in the four lists followsMinimumValues scans.
MinimumValuesFamily ==
    UNION {
        {[EmptyTx EXCEPT
            !.TurtleDexcoinOutputs = [i \in 1..n[1] |-> Output(a[i])],
            !.FileContracts = [i \in 1..n[2] |->
                FileContract(b[i], FarStart, FarEnd, <<Output(b[i])>>, <<Output(b[i])>>)],
            !.TurtleDexfundOutputs = [i \in 1..n[3] |-> FundOutput(c[i][1], c[i][2])],
            !.MinerFees = d] :
            a \in [1..n[1] -> {0, 1}], b \in [1..n[2] -> {0, 1}],
            c \in [1..n[3] -> {0, 1} \X {0, 1}], d \in [1..n[4] -> {0, 1}]} :
        n \in {m \in [1..4 -> 0..MaxItems] : m[1] + m[2] + m[3] + m[4] <= MaxTotal}}

\* Timelocks below, at and above the heights, on the three kinds of item
\* that carry unlock conditions (distinct parent IDs throughout).
Timelocks == {0, OakHardforkBlock, FoundationHardforkHeight + 1}

TimelockFamily ==
    UNION {
        {[EmptyTx EXCEPT
            !.TurtleDexcoinInputs = [i \in 1..n[1] |-> Input(i, a[i])],
            !.FileContractRevisions = [i \in 1..n[2] |->
                Revision(i, b[i], FarStart, FarEnd, <<>>, <<>>)],
            !.TurtleDexfundInputs = [i \in 1..n[3] |-> Input(i, c[i])],
            !.signatureErr = sig] :
            a \in [1..n[1] -> Timelocks], b \in [1..n[2] -> Timelocks],
            c \in [1..n[3] -> Timelocks], sig \in SignatureErrs} :
        n \in {m \in [1..3 -> 0..MaxItems] : m[1] + m[2] + m[3] <= MaxTotal}}

\* The transactions validated at `height`.  The families whose rules read
\* the height are validated at every height; the others at a height before
\* and a height after the forks.
Transactions(height) ==
    SizeFamily \cup MixedFamily \cup TimelockFamily \cup ArbitraryDataFamily
    \cup ContractListFamily(height) \cup ContractWindowFamily(height)
    \cup RevisionWindowFamily(height) \cup RevisionListFamily(height)
    \cup (IF height \in {0, OakHardforkBlock}
          THEN ContractSumFamily \cup RevisionSumFamily
          ELSE {})
    \cup (IF height \in {0, FoundationHardforkHeight}
          THEN RepeatFamily \cup ProofFamily \cup MinimumValuesFamily
          ELSE {})

\* Parent IDs numbered in the order they are first met.  noRepeats compares
\* parent IDs for equality only, so every list of parent IDs behaves as the
\* list of this kind with the same repeats.
FirstSeenOrder(ids) ==
    \A i \in 1..Len(ids) :
        ids[i] = 1 \/ \E j \in 1..(i - 1) : ids[j] + 1 >= ids[i]

\* The transactions two invocations are run on together: every pattern of
\* repeats in the lists noRepeats scans, at a height before the forks, and
\* the transactions that fail the first or the last rule, at every height.
TwoFamily(height) ==
    (IF height = 0
     THEN {t \in RepeatFamily :
              /\ FirstSeenOrder(ParentIDs(t.TurtleDexcoinInputs))
              /\ FirstSeenOrder(ParentIDs(t.StorageProofs)
                                \o ParentIDs(t.FileContractRevisions))
              /\ FirstSeenOrder(ParentIDs(t.TurtleDexfundInputs))}
     ELSE {})
    \cup SizeFamily

\* ------------------------------------------------------------------------
\* State machine.
\* ------------------------------------------------------------------------
NoRule == "none"
NoCall == [rule |-> NoRule, err |-> Nil]
NoRun == [height |-> -1, err |-> Nil]

\* A frame of StandaloneValid that has just been entered: pc is the position
\* in ChainOrder of the next rule to call.
NewFrame == [pc |-> 1, returned |-> FALSE, err |-> Nil, invoked |-> <<>>]

\* The nil map, the heap with no map on it, and the locals of noRepeats
\* while no call of it is running: section is the loop the call is in (0: not
\* entered), i the position of that loop in its list (0: the map of the
\* section is still to be made), and the three map locals hold addresses.
NoMap == 0
NoMaps == [a \in {} |-> {}]
NoScan ==
    [section |-> 0, i |-> 0,
     ttdcInputs |-> NoMap, doneFileContracts |-> NoMap, siafundInputs |-> NoMap]

Init ==
    /\ currentHeight \in Heights
    /\ tx \in Transactions(currentHeight)
    /\ calls = [c \in {1} |-> NewFrame]
    /\ direct = NoCall
    /\ last = NoRun
    /\ heap = NoMaps
    /\ scans = [c \in {1} |-> NoScan]

\* A rule method called on its own (as the package's tests call them).
CallRule(rule) ==
    /\ direct = NoCall
    /\ \A c \in DOMAIN calls : calls[c] = NewFrame
    /\ last = NoRun
    /\ direct' = [rule |-> rule, err |-> RuleErr(rule, tx, currentHeight)]
    /\ UNCHANGED <<tx, currentHeight, calls, last, heap, scans>>

\* StandaloneValid going on to the next rule after a failure.
StepKeepGoing(c) ==
    /\ direct = NoCall
    /\ ~calls[c].returned
    /\ LET rule == ChainOrder[calls[c].pc]
           e == RuleErr(rule, tx, currentHeight)
       IN  calls' = [calls EXCEPT ![c] =
                [pc |-> @.pc + 1,
                 returned |-> (@.pc = Len(ChainOrder)),
                 err |-> IF e # Nil THEN e ELSE @.err,
                 invoked |-> Append(@.invoked, rule)]]
    /\ UNCHANGED <<tx, currentHeight, direct, last, heap, scans>>

\* One statement pair of StandaloneValid: err = t.rule(...); if err != nil
\* { return }.  After the last rule it returns whatever err is.
Step(c) ==
    /\ direct = NoCall
    /\ ~calls[c].returned
    /\ LET rule == ChainOrder[calls[c].pc]
           e == RuleErr(rule, tx, currentHeight)
       IN  calls' = [calls EXCEPT ![c] =
                [pc |-> @.pc + 1,
                 returned |-> (e # Nil) \/ (@.pc = Len(ChainOrder)),
                 err |-> e,
                 invoked |-> Append(@.invoked, rule)]]
    /\ UNCHANGED <<tx, currentHeight, direct, last, heap, scans>>

Next ==
    \/ \E rule \in Rules : CallRule(rule)
    \/ \E c \in DOMAIN calls : Step(c)

Spec == Init /\ [][Next]_vars


\* Re-validation of the same transaction once the chain has grown: the
\* caller runs StandaloneValid again at a later height.
Revalidate(c) ==
    /\ direct = NoCall
    /\ calls[c].returned
    /\ \E height \in Heights :
        /\ height > currentHeight
        /\ currentHeight' = height
    /\ last' = [height |-> currentHeight, err |-> calls[c].err]
    /\ calls' = [calls EXCEPT ![c] = NewFrame]
    /\ UNCHANGED <<tx, direct, heap, scans>>

InitReval ==
    /\ currentHeight \in Heights
    /\ tx \in TimelockFamily \cup MixedFamily
    /\ calls = [c \in {1} |-> NewFrame]
    /\ direct = NoCall
    /\ last = NoRun
    /\ heap = NoMaps
    /\ scans = [c \in {1} |-> NoScan]

NextReval ==
    \/ \E rule \in Rules : CallRule(rule)
    \/ \E c \in DOMAIN calls : Step(c)
    \/ \E c \in DOMAIN calls : Revalidate(c)

SpecReval == InitReval /\ [][NextReval]_vars


\* Two invocations of StandaloneValid on the same transaction and height,
\* their steps interleaved in every order (one after the other included).
\* noRepeats runs statement by statement here, on maps that live on a heap
\* both invocations allocate from.

\* The four loops of noRepeats, in order: the list each ranges over and the
\* map local it looks up and fills.
ScanList(t, section) ==
    CASE section = 1 -> t.TurtleDexcoinInputs
      [] section = 2 -> t.StorageProofs
      [] section = 3 -> t.FileContractRevisions
      [] section = 4 -> t.TurtleDexfundInputs

ScanMap(scan) ==
    CASE scan.section = 1 -> scan.ttdcInputs
      [] scan.section \in {2, 3} -> scan.doneFileContracts
      [] scan.section = 4 -> scan.siafundInputs

\* The maps a noRepeats call holds in its locals.
MapsOf(scan) ==
    {a \in {scan.ttdcInputs, scan.doneFileContracts, scan.siafundInputs} :
        a # NoMap}

\* make(map[...]struct{}) handing out the one map of the package.
MakeMapShared(h) == 1

\* make(map[...]struct{}): the address of a map that did not exist before.
MakeMap(h) ==
    CHOOSE a \in 1..(Cardinality(DOMAIN h) + 1) : a \notin DOMAIN h

\* The heap once the maps `dead` are unreachable and collected.
Collect(h, dead) == [a \in DOMAIN h \ dead |-> h[a]]

\* The frame is at its call of noRepeats.
AtNoRepeats(c) ==
    /\ direct = NoCall
    /\ ~calls[c].returned
    /\ ChainOrder[calls[c].pc] = "noRepeats"

\* err = t.noRepeats(); if err != nil { return } -- the return of the call
\* with error e: its locals go, and with them its maps.
NoRepeatsReturn(c, e) ==
    /\ calls' = [calls EXCEPT ![c] =
            [pc |-> @.pc + 1,
             returned |-> (e # Nil) \/ (@.pc = Len(ChainOrder)),
             err |-> e,
             invoked |-> Append(@.invoked, "noRepeats")]]
    /\ scans' = [scans EXCEPT ![c] = NoScan]
    /\ heap' = Collect(heap, MapsOf(scans[c]))

\* ttdcInputs := make(...), doneFileContracts := make(...) and
\* siafundInputs := make(...): the statement ahead of the first, second and
\* fourth loop.
NoRepeatsMake(c) ==
    /\ AtNoRepeats(c)
    /\ scans[c].i = 0
    /\ LET section == IF scans[c].section = 0 THEN 1 ELSE scans[c].section
           a == MakeMap(heap)
       IN  /\ heap' = [b \in DOMAIN heap \cup {a} |->
                          IF b = a THEN {} ELSE heap[b]]
           /\ scans' = [scans EXCEPT ![c] =
                  CASE section = 1 ->
                         [@ EXCEPT !.section = 1, !.i = 1, !.ttdcInputs = a]
                    [] section = 2 ->
                         [@ EXCEPT !.i = 1, !.doneFileContracts = a]
                    [] section = 4 ->
                         [@ EXCEPT !.i = 1, !.siafundInputs = a]]
    /\ UNCHANGED <<tx, currentHeight, calls, direct, last>>

\* One turn of a for loop of noRepeats: the loop ends and the next statement
\* is reached (return nil after the last loop), or the parent ID exists in
\* the map and the call returns ErrDoubleSpend, or the parent ID is put in
\* the map.
NoRepeatsIterate(c) ==
    /\ AtNoRepeats(c)
    /\ scans[c].i > 0
    /\ LET scan == scans[c]
           list == ScanList(tx, scan.section)
           m == ScanMap(scan)
       IN  IF scan.i > Len(list)
           THEN IF scan.section = 4
                THEN /\ NoRepeatsReturn(c, Nil)
                     /\ UNCHANGED <<tx, currentHeight, direct, last>>
                ELSE /\ scans' = [scans EXCEPT ![c] =
                            [@ EXCEPT !.section = @ + 1,
                                      !.i = IF scan.section = 2 THEN 1 ELSE 0]]
                     /\ UNCHANGED <<tx, currentHeight, calls, direct, last, heap>>
           ELSE IF list[scan.i].ParentID \in heap[m]
                THEN /\ NoRepeatsReturn(c, ErrDoubleSpend)
                     /\ UNCHANGED <<tx, currentHeight, direct, last>>
                ELSE /\ heap' = [heap EXCEPT ![m] = @ \cup {list[scan.i].ParentID}]
                     /\ scans' = [scans EXCEPT ![c] = [@ EXCEPT !.i = @ + 1]]
                     /\ UNCHANGED <<tx, currentHeight, calls, direct, last>>

\* The statement pairs of StandaloneValid other than the call of noRepeats.
StepOther(c) ==
    /\ ~calls[c].returned
    /\ ChainOrder[calls[c].pc] # "noRepeats"
    /\ Step(c)

InitTwo ==
    /\ currentHeight \in Heights
    /\ tx \in TwoFamily(currentHeight)
    /\ calls = [c \in {1, 2} |-> NewFrame]
    /\ direct = NoCall
    /\ last = NoRun
    /\ heap = NoMaps
    /\ scans = [c \in {1, 2} |-> NoScan]

NextTwo ==
    \/ \E c \in DOMAIN calls : StepOther(c)
    \/ \E c \in DOMAIN calls : NoRepeatsMake(c)
    \/ \E c \in DOMAIN calls : NoRepeatsIterate(c)

SpecTwo == InitTwo /\ [][NextTwo]_vars

\* ------------------------------------------------------------------------
\* Properties.
\* ------------------------------------------------------------------------
Frames == DOMAIN calls

Range(seq) == {seq[i] : i \in 1..Len(seq)}

IsPrefix(a, b) == Len(a) <= Len(b) /\ a = SubSeq(b, 1, Len(a))

\* The error of the first rule of `order` that fails on (t, height); Nil
\* when none does.
FirstFailure(order, t, height) ==
    LET failing == {i \in 1..Len(order) : RuleErr(order[i], t, height) # Nil}
    IN  IF failing = {} THEN Nil
        ELSE RuleErr(order[CHOOSE i \in failing : \A j \in failing : i <= j],
                     t, height)

\* The order of the calls in StandaloneValid's body, as written there.
CallOrder ==
    <<"fitsInABlock", "followsStorageProofRules", "noRepeats",
      "followsMinimumValues", "correctFileContracts",
      "correctFileContractRevisions", "correctArbitraryData",
      "validUnlockConditions", "validSignatures">>

\* C1 as stated: StandaloneValid calls the rules in the order of sections
\* 4.1 to 4.9 and returns the error of the first rule failing in that order.
C1_SectionOrder ==
    \A c \in Frames :
        /\ IsPrefix(calls[c].invoked, SectionOrder)
        /\ calls[c].returned =>
            calls[c].err = FirstFailure(SectionOrder, tx, currentHeight)

\* C1 amended: StandaloneValid calls the rules in the order fitsInABlock,
\* followsStorageProofRules, noRepeats, followsMinimumValues,
\* correctFileContracts, correctFileContractRevisions, correctArbitraryData,
\* validUnlockConditions, validSignatures, and returns the error of the
\* first rule failing in that order.
C1_CallOrder ==
    \A c \in Frames :
        /\ IsPrefix(calls[c].invoked, CallOrder)
        /\ calls[c].returned =>
            calls[c].err = FirstFailure(CallOrder, tx, currentHeight)

\* A transaction breaking a file-contract rule and the no-repeats rule has
\* been validated and is reported with the no-repeats error.
C1_Witness ==
    \E c \in Frames :
        /\ calls[c].returned
        /\ fitsInABlock(tx, currentHeight) = Nil
        /\ followsStorageProofRules(tx) = Nil
        /\ correctFileContracts(tx, currentHeight) # Nil
        /\ noRepeats(tx) = ErrDoubleSpend
        /\ calls[c].err = ErrDoubleSpend

\* C2 (state part): every rule called before the last one called passed, the
\* frame's error is the error of the last rule called, a frame holding an
\* error has returned, a returned frame holds nil exactly when all nine
\* rules pass, and validSignatures is called only when the eight others pass.
C2_FailFastState ==
    \A c \in Frames :
        LET f == calls[c]
            n == Len(f.invoked)
        IN  /\ \A i \in 1..(n - 1) : RuleErr(f.invoked[i], tx, currentHeight) = Nil
            /\ \A i, j \in 1..n : f.invoked[i] = f.invoked[j] => i = j
            /\ n > 0 => f.err = RuleErr(f.invoked[n], tx, currentHeight)
            /\ f.err # Nil => f.returned
            /\ f.returned =>
                (f.err = Nil <=> \A r \in Rules : RuleErr(r, tx, currentHeight) = Nil)
            /\ "validSignatures" \in Range(f.invoked) =>
                \A r \in Rules \ {"validSignatures"} :
                    RuleErr(r, tx, currentHeight) = Nil

\* C2 (step part): a frame that holds an error calls no further rule.
C2_FailFastStep ==
    \A c \in Frames : calls[c].err # Nil => calls'[c] = calls[c]

\* C2: StandaloneValid succeeds iff all nine rules succeed; on a failure it
\* returns that rule's own error and calls no rule after it.
C2_FailFast == []C2_FailFastState /\ [][C2_FailFastStep]_vars

\* A rule in the middle of the chain failed, and validSignatures, which
\* would have failed too, was not called.
C2_Witness ==
    \E c \in Frames :
        /\ calls[c].returned
        /\ calls[c].err = ErrZeroOutput
        /\ Len(calls[c].invoked) = 4
        /\ validSignatures(tx, currentHeight) # Nil

ExactLimit == BlockSizeLimit - 5000

\* C3 as stated: at every height a transaction of exactly
\* BlockSizeLimit - 5000 bytes passes fitsInABlock and one of one byte more
\* fails with TransactionTooLarge.
C3_EveryHeight ==
    direct.rule = "fitsInABlock" =>
        /\ tx.encodedSize = ExactLimit => direct.err = Nil
        /\ tx.encodedSize = ExactLimit + 1 => direct.err = ErrTransactionTooLarge

\* C3 amended: at every height below OakHardforkBlock a transaction of
\* exactly BlockSizeLimit - 5000 bytes passes fitsInABlock (from
\* OakHardforkBlock on it fails with TransactionTooLarge), and at every
\* height one of one byte more fails with TransactionTooLarge.
C3_SizeBoundary ==
    direct.rule = "fitsInABlock" =>
        /\ (tx.encodedSize = ExactLimit /\ currentHeight < OakHardforkBlock)
            => direct.err = Nil
        /\ (tx.encodedSize = ExactLimit /\ currentHeight >= OakHardforkBlock)
            => direct.err = ErrTransactionTooLarge
        /\ tx.encodedSize = ExactLimit + 1 => direct.err = ErrTransactionTooLarge

\* fitsInABlock has passed a transaction of exactly the legacy limit.
C3_Witness ==
    /\ direct.rule = "fitsInABlock"
    /\ tx.encodedSize = ExactLimit
    /\ currentHeight < OakHardforkBlock
    /\ direct.err = Nil

\* C4: from OakHardforkBlock on a size above OakHardforkTxnSizeLimit fails;
\* before it a size above that limit and within BlockSizeLimit - 5000
\* passes; a size above BlockSizeLimit - 5000 fails at every height.
C4_OakGate ==
    direct.rule = "fitsInABlock" =>
        /\ (currentHeight >= OakHardforkBlock /\ tx.encodedSize > OakHardforkTxnSizeLimit)
            => direct.err = ErrTransactionTooLarge
        /\ (/\ currentHeight < OakHardforkBlock
            /\ tx.encodedSize > OakHardforkTxnSizeLimit
            /\ tx.encodedSize <= ExactLimit)
            => direct.err = Nil
        /\ tx.encodedSize > ExactLimit => direct.err = ErrTransactionTooLarge

\* One block before the fork, fitsInABlock has passed a transaction above
\* the Oak limit.
C4_Witness ==
    /\ direct.rule = "fitsInABlock"
    /\ currentHeight = OakHardforkBlock - 1
    /\ tx.encodedSize = OakHardforkTxnSizeLimit + 1
    /\ direct.err = Nil

HasDuplicate(ids) == \E i, j \in 1..Len(ids) : i < j /\ ids[i] = ids[j]

\* C5: noRepeats fails, with DoubleSpend, iff two coin inputs share a parent
\* ID, or two fund inputs do, or two entries of the storage proofs followed
\* by the revisions do; the three kinds of ID do not collide with each other.
C5_NoRepeats ==
    direct.rule = "noRepeats" =>
        /\ direct.err \in {Nil, ErrDoubleSpend}
        /\ direct.err = ErrDoubleSpend <=>
            \/ HasDuplicate(ParentIDs(tx.TurtleDexcoinInputs))
            \/ HasDuplicate(ParentIDs(tx.TurtleDexfundInputs))
            \/ HasDuplicate(ParentIDs(tx.StorageProofs)
                            \o ParentIDs(tx.FileContractRevisions))

\* noRepeats has passed a transaction whose coin input, fund input and
\* storage proof carry the same ID value.
C5_Witness ==
    /\ direct.rule = "noRepeats"
    /\ direct.err = Nil
    /\ Len(tx.TurtleDexcoinInputs) > 0
    /\ Len(tx.TurtleDexfundInputs) > 0
    /\ Len(tx.StorageProofs) > 0
    /\ tx.TurtleDexcoinInputs[1].ParentID = tx.TurtleDexfundInputs[1].ParentID
    /\ tx.TurtleDexcoinInputs[1].ParentID = tx.StorageProofs[1].ParentID


\* Every timelock the transaction carries.
TimelocksOf(t) ==
    {t.TurtleDexcoinInputs[i].UnlockConditions.Timelock :
        i \in 1..Len(t.TurtleDexcoinInputs)}
    \cup {t.TurtleDexfundInputs[i].UnlockConditions.Timelock :
        i \in 1..Len(t.TurtleDexfundInputs)}
    \cup {t.FileContractRevisions[i].UnlockConditions.Timelock :
        i \in 1..Len(t.FileContractRevisions)}

\* C6 (state part): a transaction that failed with TimelockNotSatisfied and
\* is validated again at a height above all its timelocks does not fail
\* with TimelockNotSatisfied.
C6_AfterTimelock ==
    \A c \in Frames :
        (/\ last.err = ErrTimelockNotSatisfied
         /\ calls[c].returned
         /\ \A timelock \in TimelocksOf(tx) : currentHeight > timelock)
        => calls[c].err # ErrTimelockNotSatisfied

\* C6 (step part): once the unlock-conditions rule passes at a height, it
\* passes at the height of every later validation.
C6_StaysUnlocked ==
    validUnlockConditions(tx, currentHeight) = Nil
        => validUnlockConditions(tx', currentHeight') = Nil

\* C6: monotonic timelock.
C6_MonotonicTimelock == []C6_AfterTimelock /\ [][C6_StaysUnlocked]_vars

\* A transaction that failed on its timelock has been validated again above
\* its timelocks and failed with another kind.
C6_Witness ==
    \E c \in Frames :
        /\ last.err = ErrTimelockNotSatisfied
        /\ calls[c].returned
        /\ TimelocksOf(tx) # {}
        /\ \A timelock \in TimelocksOf(tx) : currentHeight > timelock
        /\ calls[c].err = ErrInvalidSignature

\* The exact total of a list of outputs.
RECURSIVE Total(_, _)
Total(outputs, n) == IF n = 0 THEN 0 ELSE Total(outputs, n - 1) + outputs[n].Value

WindowsPass(t, height) ==
    \A i \in 1..Len(t.FileContracts) :
        /\ t.FileContracts[i].WindowStart > height
        /\ t.FileContracts[i].WindowEnd > t.FileContracts[i].WindowStart

SumsMatchPostTax(fc, height) ==
    /\ Total(fc.ValidProofOutputs, Len(fc.ValidProofOutputs))
        = PostTax(height, fc.Payout)
    /\ Total(fc.MissedProofOutputs, Len(fc.MissedProofOutputs))
        = PostTax(height, fc.Payout)

\* C7: when the window checks of the contracts pass, correctFileContracts
\* fails, with FileContractOutputSumViolation, iff some contract's valid or
\* missed outputs do not total exactly PostTax(currentHeight, payout); a
\* proof output of value zero is never a reason to reject.
C7_ContractSums ==
    (direct.rule = "correctFileContracts" /\ WindowsPass(tx, currentHeight)) =>
        /\ direct.err \in {Nil, ErrFileContractOutputSumViolation}
        /\ direct.err = ErrFileContractOutputSumViolation <=>
            \E i \in 1..Len(tx.FileContracts) :
                ~SumsMatchPostTax(tx.FileContracts[i], currentHeight)

\* correctFileContracts has passed a contract on which the tax bites and
\* which has a proof output of value zero.
C7_Witness ==
    /\ direct.rule = "correctFileContracts"
    /\ direct.err = Nil
    /\ \E i \in 1..Len(tx.FileContracts) :
        LET fc == tx.FileContracts[i]
        IN  /\ PostTax(currentHeight, fc.Payout) < fc.Payout
            /\ \E k \in 1..Len(fc.ValidProofOutputs) :
                fc.ValidProofOutputs[k].Value = 0
            /\ \E k \in 1..Len(fc.MissedProofOutputs) :
                fc.MissedProofOutputs[k].Value = 0

\* The windows and the sum verdict of the contracts, and of the revisions.
ContractItems(t, height) ==
    [i \in 1..Len(t.FileContracts) |->
        [start |-> t.FileContracts[i].WindowStart,
         end |-> t.FileContracts[i].WindowEnd,
         sumsOk |-> SumsMatchPostTax(t.FileContracts[i], height)]]

RevisionItems(t) ==
    [i \in 1..Len(t.FileContractRevisions) |->
        LET fcr == t.FileContractRevisions[i]
        IN  [start |-> fcr.NewWindowStart,
             end |-> fcr.NewWindowEnd,
             sumsOk |-> Total(fcr.NewValidProofOutputs, Len(fcr.NewValidProofOutputs))
                        = Total(fcr.NewMissedProofOutputs, Len(fcr.NewMissedProofOutputs))]]

Offends(item, height) ==
    item.start <= height \/ item.end <= item.start \/ ~item.sumsOk

\* What the first offending item is rejected for: its start before its end,
\* its end before its sums.
WindowOrdering(items, height, err) ==
    LET offenders == {i \in 1..Len(items) : Offends(items[i], height)}
    IN  IF offenders = {} THEN err = Nil
        ELSE LET item == items[CHOOSE i \in offenders : \A j \in offenders : i <= j]
             IN  /\ item.start <= height
                    => err = ErrFileContractWindowStartViolation
                 /\ (item.start > height /\ item.end <= item.start)
                    => err = ErrFileContractWindowEndViolation
                 /\ (item.start > height /\ item.end > item.start)
                    => err = ErrFileContractOutputSumViolation

\* C8: for contracts and revisions alike, a window start at or before the
\* current height fails with FileContractWindowStartViolation, a start of
\* currentHeight + 1 passes the start check, an end at or before the start
\* then fails with FileContractWindowEndViolation, and only then are the
\* sums looked at.
C8_WindowOrdering ==
    /\ direct.rule = "correctFileContracts" =>
        WindowOrdering(ContractItems(tx, currentHeight), currentHeight, direct.err)
    /\ direct.rule = "correctFileContractRevisions" =>
        WindowOrdering(RevisionItems(tx), currentHeight, direct.err)

\* A revision whose window starts at currentHeight + 1 and ends there, with
\* sums that differ, has been rejected for its window end.
C8_Witness ==
    /\ direct.rule = "correctFileContractRevisions"
    /\ Len(tx.FileContractRevisions) = 1
    /\ tx.FileContractRevisions[1].NewWindowStart = currentHeight + 1
    /\ tx.FileContractRevisions[1].NewWindowEnd = currentHeight + 1
    /\ ~RevisionItems(tx)[1].sumsOk
    /\ direct.err = ErrFileContractWindowEndViolation

\* C9: followsStorageProofRules passes every transaction without storage
\* proofs; with one, it fails, with StorageProofWithOutputs, iff the
\* transaction has a coin output, file contract, revision or fund output.
C9_StorageProofRules ==
    direct.rule = "followsStorageProofRules" =>
        /\ direct.err \in {Nil, ErrStorageProofWithOutputs}
        /\ tx.StorageProofs = <<>> => direct.err = Nil
        /\ tx.StorageProofs # <<>> =>
            (direct.err = ErrStorageProofWithOutputs <=>
                \/ tx.TurtleDexcoinOutputs # <<>>
                \/ tx.FileContracts # <<>>
                \/ tx.FileContractRevisions # <<>>
                \/ tx.TurtleDexfundOutputs # <<>>)

\* followsStorageProofRules has passed a storage proof travelling with coin
\* inputs, fund inputs, miner fees and arbitrary data.
C9_Witness ==
    /\ direct.rule = "followsStorageProofRules"
    /\ direct.err = Nil
    /\ tx.StorageProofs # <<>>
    /\ tx.TurtleDexcoinInputs # <<>>
    /\ tx.TurtleDexfundInputs # <<>>
    /\ tx.MinerFees # <<>>
    /\ tx.ArbitraryData # <<>>

\* A Foundation-prefixed entry whose remainder is too short to hold the two
\* addresses of an update.
FailsToDecode(arb) ==
    /\ Len(arb) >= SpecifierLen
    /\ \A k \in 1..SpecifierLen : arb[k] = SpecifierFoundation[k]
    /\ Len(arb) - SpecifierLen < 2 * HashSize

\* A Foundation-prefixed entry that decodes to an update with a void address.
DecodesVoid(arb) ==
    /\ Len(arb) >= SpecifierLen + 2 * HashSize
    /\ \A k \in 1..SpecifierLen : arb[k] = SpecifierFoundation[k]
    /\ \/ \A k \in 1..HashSize : arb[SpecifierLen + k] = 0
       \/ \A k \in 1..HashSize : arb[SpecifierLen + HashSize + k] = 0

\* C10 as stated: below FoundationHardforkHeight correctArbitraryData passes
\* whatever the data; from that height on a transaction with a prefixed
\* entry that fails to decode fails with InvalidFoundationUpdateEncoding.
C10_AnyMalformedEntry ==
    direct.rule = "correctArbitraryData" =>
        /\ currentHeight < FoundationHardforkHeight => direct.err = Nil
        /\ (/\ currentHeight >= FoundationHardforkHeight
            /\ \E i \in 1..Len(tx.ArbitraryData) : FailsToDecode(tx.ArbitraryData[i]))
            => direct.err = ErrInvalidFoundationUpdateEncoding

\* C10 amended: below FoundationHardforkHeight correctArbitraryData passes
\* whatever the data; from that height on a transaction with a prefixed
\* entry that fails to decode fails with InvalidFoundationUpdateEncoding
\* unless a prefixed entry that decodes to an update with a void address
\* comes before every entry that fails to decode, in which case it fails
\* with UninitializedFoundationUpdate.
C10_FoundationGate ==
    direct.rule = "correctArbitraryData" =>
        /\ currentHeight < FoundationHardforkHeight => direct.err = Nil
        /\ currentHeight >= FoundationHardforkHeight =>
            LET undecodable == {i \in 1..Len(tx.ArbitraryData) :
                                    FailsToDecode(tx.ArbitraryData[i])}
            IN  undecodable # {} =>
                    IF \E j \in 1..Len(tx.ArbitraryData) :
                        /\ DecodesVoid(tx.ArbitraryData[j])
                        /\ \A i \in undecodable : j < i
                    THEN direct.err = ErrUninitializedFoundationUpdate
                    ELSE direct.err = ErrInvalidFoundationUpdateEncoding

\* One block before the Foundation hardfork correctArbitraryData has passed
\* a transaction with an update that fails to decode.
C10_Witness ==
    /\ direct.rule = "correctArbitraryData"
    /\ currentHeight = FoundationHardforkHeight - 1
    /\ \E i \in 1..Len(tx.ArbitraryData) : FailsToDecode(tx.ArbitraryData[i])
    /\ direct.err = Nil


\* An entry that begins with the Foundation specifier.
Prefixed(arb) ==
    /\ Len(arb) >= SpecifierLen
    /\ \A k \in 1..SpecifierLen : arb[k] = SpecifierFoundation[k]

\* C11: from FoundationHardforkHeight on, correctArbitraryData decides on
\* the first offending entry in list order: InvalidFoundationUpdateEncoding
\* when it is a prefixed entry that does not decode,
\* UninitializedFoundationUpdate when it decodes with a void NewPrimary or
\* NewFailsafe; entries without the prefix never offend, and the rule passes
\* iff every prefixed entry decodes with both addresses non-void.
C11_FirstOffender ==
    (direct.rule = "correctArbitraryData"
        /\ currentHeight >= FoundationHardforkHeight) =>
        LET arbs == tx.ArbitraryData
            offenders == {i \in 1..Len(arbs) :
                            FailsToDecode(arbs[i]) \/ DecodesVoid(arbs[i])}
        IN  /\ \A i \in offenders : Prefixed(arbs[i])
            /\ direct.err = Nil <=>
                \A i \in 1..Len(arbs) :
                    Prefixed(arbs[i]) =>
                        /\ Len(arbs[i]) >= SpecifierLen + 2 * HashSize
                        /\ \E k \in 1..HashSize : arbs[i][SpecifierLen + k] # 0
                        /\ \E k \in 1..HashSize :
                            arbs[i][SpecifierLen + HashSize + k] # 0
            /\ offenders # {} =>
                LET first == CHOOSE i \in offenders : \A j \in offenders : i <= j
                IN  IF FailsToDecode(arbs[first])
                    THEN direct.err = ErrInvalidFoundationUpdateEncoding
                    ELSE direct.err = ErrUninitializedFoundationUpdate

\* After an entry without the prefix, an update with a non-void NewPrimary
\* and a void NewFailsafe has been rejected as uninitialized, ahead of an
\* entry that does not decode.
C11_Witness ==
    /\ direct.rule = "correctArbitraryData"
    /\ currentHeight >= FoundationHardforkHeight
    /\ Len(tx.ArbitraryData) >= 2
    /\ ~Prefixed(tx.ArbitraryData[1])
    /\ Len(tx.ArbitraryData[1]) > 0
    /\ DecodesVoid(tx.ArbitraryData[2])
    /\ tx.ArbitraryData[2][SpecifierLen + 1] # 0
    /\ direct.err = ErrUninitializedFoundationUpdate


\* The violations of the minimum values a transaction carries.
HasZeroOutput(t) ==
    \/ \E i \in 1..Len(t.TurtleDexcoinOutputs) : t.TurtleDexcoinOutputs[i].Value = 0
    \/ \E i \in 1..Len(t.FileContracts) : t.FileContracts[i].Payout = 0
    \/ \E i \in 1..Len(t.TurtleDexfundOutputs) : t.TurtleDexfundOutputs[i].Value = 0

HasNonZeroClaimStart(t) ==
    \E i \in 1..Len(t.TurtleDexfundOutputs) : t.TurtleDexfundOutputs[i].ClaimStart # 0

HasZeroMinerFee(t) == \E i \in 1..Len(t.MinerFees) : t.MinerFees[i] = 0

\* C12: followsMinimumValues passes iff every coin output value, contract
\* payout and fund output value is non-zero, every fund output ClaimStart
\* is zero and every miner fee is non-zero; the kind it fails with names a
\* violation the transaction has.
C12_MinimumValues ==
    direct.rule = "followsMinimumValues" =>
        /\ direct.err \in {Nil, ErrZeroOutput, ErrNonZeroClaimStart, ErrZeroMinerFee}
        /\ direct.err = Nil <=>
            ~(HasZeroOutput(tx) \/ HasNonZeroClaimStart(tx) \/ HasZeroMinerFee(tx))
        /\ direct.err = ErrZeroOutput => HasZeroOutput(tx)
        /\ direct.err = ErrNonZeroClaimStart => HasNonZeroClaimStart(tx)
        /\ direct.err = ErrZeroMinerFee => HasZeroMinerFee(tx)

\* followsMinimumValues has rejected, for its ClaimStart, a transaction
\* whose only other violation is a zero miner fee.
C12_Witness ==
    /\ direct.rule = "followsMinimumValues"
    /\ direct.err = ErrNonZeroClaimStart
    /\ HasZeroMinerFee(tx)
    /\ ~HasZeroOutput(tx)
    /\ tx.TurtleDexcoinOutputs # <<>>


RevisionWindowsPass(t, height) ==
    \A i \in 1..Len(t.FileContractRevisions) :
        /\ t.FileContractRevisions[i].NewWindowStart > height
        /\ t.FileContractRevisions[i].NewWindowEnd
            > t.FileContractRevisions[i].NewWindowStart

\* C13: when the window checks of the revisions pass,
\* correctFileContractRevisions fails, with FileContractOutputSumViolation,
\* iff some revision's NewValidProofOutputs and NewMissedProofOutputs total
\* differently; no tax and no payout enters, so equal totals pass whatever
\* they are.
C13_RevisionSums ==
    (direct.rule = "correctFileContractRevisions"
        /\ RevisionWindowsPass(tx, currentHeight)) =>
        /\ direct.err \in {Nil, ErrFileContractOutputSumViolation}
        /\ direct.err = ErrFileContractOutputSumViolation <=>
            \E i \in 1..Len(tx.FileContractRevisions) :
                LET fcr == tx.FileContractRevisions[i]
                IN  Total(fcr.NewValidProofOutputs, Len(fcr.NewValidProofOutputs))
                    # Total(fcr.NewMissedProofOutputs, Len(fcr.NewMissedProofOutputs))

\* correctFileContractRevisions has passed a revision whose two sides total
\* the same amount through different outputs, an amount the tax would change.
C13_Witness ==
    /\ direct.rule = "correctFileContractRevisions"
    /\ direct.err = Nil
    /\ Len(tx.FileContractRevisions) = 1
    /\ LET fcr == tx.FileContractRevisions[1]
           sum == Total(fcr.NewValidProofOutputs, Len(fcr.NewValidProofOutputs))
       IN  /\ PostTax(currentHeight, sum) # sum
           /\ fcr.NewValidProofOutputs # fcr.NewMissedProofOutputs


\* C14: validUnlockConditions fails, with TimelockNotSatisfied, iff a coin
\* input, a fund input or a revision has a timelock above the current
\* height; a timelock equal to the height is satisfied.
C14_Timelocks ==
    direct.rule = "validUnlockConditions" =>
        /\ direct.err \in {Nil, ErrTimelockNotSatisfied}
        /\ direct.err = ErrTimelockNotSatisfied <=>
            \E timelock \in TimelocksOf(tx) : timelock > currentHeight

\* validUnlockConditions has passed a transaction whose coin input, fund
\* input and revision are all locked until exactly the current height.
C14_Witness ==
    /\ direct.rule = "validUnlockConditions"
    /\ direct.err = Nil
    /\ currentHeight > 0
    /\ tx.TurtleDexcoinInputs # <<>>
    /\ tx.TurtleDexfundInputs # <<>>
    /\ tx.FileContractRevisions # <<>>
    /\ TimelocksOf(tx) = {currentHeight}


\* A storage proof and a revision of the transaction name the same contract.
ProofMeetsRevision(t) ==
    \E i \in 1..Len(t.StorageProofs), j \in 1..Len(t.FileContractRevisions) :
        t.StorageProofs[i].ParentID = t.FileContractRevisions[j].ParentID

\* C16: StandaloneValid rejects a transaction that passes the size rule and
\* carries a storage proof and a revision of the same contract with
\* StorageProofWithOutputs, and when it returns DoubleSpend the transaction
\* repeats a coin input, a fund input, a storage proof, or, having no
\* storage proof, a revision.
C16_ProofRevisionCollision ==
    \A c \in Frames :
        calls[c].returned =>
            /\ (fitsInABlock(tx, currentHeight) = Nil /\ ProofMeetsRevision(tx))
                => calls[c].err = ErrStorageProofWithOutputs
            /\ calls[c].err = ErrDoubleSpend =>
                \/ HasDuplicate(ParentIDs(tx.TurtleDexcoinInputs))
                \/ HasDuplicate(ParentIDs(tx.TurtleDexfundInputs))
                \/ HasDuplicate(ParentIDs(tx.StorageProofs))
                \/ /\ tx.StorageProofs = <<>>
                   /\ HasDuplicate(ParentIDs(tx.FileContractRevisions))

\* A transaction whose only repeat is a storage proof and a revision of one
\* contract has been validated and rejected with StorageProofWithOutputs.
C16_Witness ==
    \E c \in Frames :
        /\ calls[c].returned
        /\ ProofMeetsRevision(tx)
        /\ ~HasDuplicate(ParentIDs(tx.TurtleDexcoinInputs))
        /\ ~HasDuplicate(ParentIDs(tx.TurtleDexfundInputs))
        /\ ~HasDuplicate(ParentIDs(tx.StorageProofs))
        /\ ~HasDuplicate(ParentIDs(tx.FileContractRevisions))
        /\ noRepeats(tx) = ErrDoubleSpend
        /\ calls[c].err = ErrStorageProofWithOutputs


\* The parent IDs a running noRepeats call has put in the map at address a:
\* those of the items its own loops have passed.
Scanned(scan, a) ==
    LET passed(section) ==
            IF section < scan.section /\ section # 0
            THEN Range(ParentIDs(ScanList(tx, section)))
            ELSE IF section = scan.section /\ scan.i > 0
            THEN Range(ParentIDs(SubSeq(ScanList(tx, section), 1, scan.i - 1)))
            ELSE {}
    IN  {id \in IDs :
            \E section \in 1..4 :
                /\ a = ScanMap([scan EXCEPT !.section = section])
                /\ id \in passed(section)}

\* C15 (state part): two invocations that have called the same number of
\* rules hold the same results, two that have returned hold the same
\* verdict, and that verdict is the first failure of the chain on
\* (tx, currentHeight); no map is held by two invocations or under two
\* names; a map holds exactly the parent IDs its own invocation has scanned;
\* and no map outlives the noRepeats call that made it.
C15_SameVerdict ==
    /\ \A c, d \in Frames :
        /\ Len(calls[c].invoked) = Len(calls[d].invoked) => calls[c] = calls[d]
        /\ (calls[c].returned /\ calls[d].returned) => calls[c].err = calls[d].err
    /\ \A c \in Frames :
        /\ calls[c].returned =>
              calls[c].err = FirstFailure(ChainOrder, tx, currentHeight)
        /\ "noRepeats" \in Range(calls[c].invoked) =>
              (calls[c].err = ErrDoubleSpend) = (noRepeats(tx) = ErrDoubleSpend)
        /\ MapsOf(scans[c]) \subseteq DOMAIN heap
        /\ \A a \in MapsOf(scans[c]) : heap[a] = Scanned(scans[c], a)
        /\ Cardinality(MapsOf(scans[c])) =
              Cardinality({f \in {"ttdcInputs", "doneFileContracts", "siafundInputs"} :
                              scans[c][f] # NoMap})
        /\ \A d \in Frames \ {c} : MapsOf(scans[c]) \cap MapsOf(scans[d]) = {}
    /\ \A a \in DOMAIN heap : \E c \in Frames : a \in MapsOf(scans[c])

\* C15 (step part): a step of one invocation changes neither the inputs nor
\* any other invocation, its noRepeats locals and its maps included.
C15_NoInterference ==
    /\ tx' = tx
    /\ currentHeight' = currentHeight
    /\ \A c \in Frames :
        (calls'[c] # calls[c] \/ scans'[c] # scans[c]) =>
            \A d \in Frames \ {c} :
                /\ calls'[d] = calls[d]
                /\ scans'[d] = scans[d]
                /\ \A a \in MapsOf(scans[d]) :
                      a \in DOMAIN heap' /\ heap'[a] = heap[a]

\* C15: StandaloneValid is a function of (transaction, height) alone: two
\* invocations with the same inputs, one after the other or interleaved,
\* return the same verdict, and nothing noRepeats builds in one of them
\* reaches the other or stays behind when it returns.
C15_Deterministic == []C15_SameVerdict /\ [][C15_NoInterference]_vars

\* One invocation has returned ErrDoubleSpend from noRepeats while the other
\* is inside its own noRepeats, which has put the parent ID that repeats in
\* its own map and has not met the repeat yet.
C15_Witness ==
    \E c, d \in Frames :
        /\ c # d
        /\ calls[c].returned
        /\ calls[c].err = ErrDoubleSpend
        /\ heap # NoMaps
        /\ scans[c] = NoScan
        /\ scans[d].i > 1
        /\ \E a \in MapsOf(scans[d]) : heap[a] # {}

=============================================================================
